---- MODULE Spec2Model ----
(***************************************************************************)
(* Model of motor_gui.py: the Tk main thread (button handlers, the speed   *)
(* poller, deferred callbacks) and the sequence worker thread started by   *)
(* MotorGUI._start_seq, which interleave statement by statement.           *)
(***************************************************************************)
EXTENDS Integers, Sequences, FiniteSets, TLC

\* ------------------------------------------------------------- bounds --
MaxCycles == 2       \* largest iteration count typed into the form
MaxPending == 2      \* deferred root.after(0, ...) callbacks counted one by one
MaxFails == 1        \* failed poll ticks counted in one outage

\* Scale values are held in units of 1/ScaleDen RPM per count, the
\* resolution of the default scale text "0.19913".
ScaleDen == 100000

\* --------------------------------------------------------------- state --
VARIABLES
    connected,   \* self.connected
    scope,       \* self.scope._scope: "none" | "open"
    cmd_var,     \* self.cmd_var: "none" while the attribute does not exist,
    run_var,     \* self.run_var:   else the state of the handle's channel:
    stop_var,    \* self.stop_var:  "cur" | "old" | "released" (see Live)
    thread,      \* self._thread: position of the worker in _run_sequence
    n,           \* loop variable n of _run_sequence
    cnt_cmd,     \* local cnt_cmd of _run_sequence
    slept,       \* the current timed wait has executed time.sleep(0.05)
    stop_flag,   \* self._stop_flag
    params,      \* self.params
    status,      \* self.status
    start_btn,   \* state of self.start_btn
    stop_btn,    \* state of self.stop_btn
    pending,     \* root.after(0, ...) callbacks not yet run; the value
                 \* MaxPending stands for MaxPending or more of them
    mpc,         \* position of the main thread: event loop or inside a handler
    dialog,      \* title of the message box on screen, "none" without one
    log,         \* the worker's writes to cmd/run/stop in the current run, in order
    handlerWrites, \* writes to cmd/run/stop issued by GUI handlers since the latest start
    lastWrite,   \* the most recent write to cmd/run/stop since the latest start
    cancelLen,   \* Len(log) when _stop_seq set the flag in this run
    sample,      \* meas_str / cmd_str
    observed,    \* the worker has seen _stop_flag set in this run
    cancelPc,    \* worker position when _stop_seq set the flag in this run
    phase,       \* the phase the worker announced last in the current run
    poll_sched,  \* root.after(POLL_MS, self._poll_speeds) is scheduled
    pollHist     \* outcome of the latest poll reads, length of the latest outage

vars == <<connected, scope, cmd_var, run_var, stop_var, thread, n, cnt_cmd, slept,
          stop_flag, params, status, start_btn, stop_btn, pending, mpc,
          dialog, log, handlerWrites, lastWrite, sample, observed,
          cancelPc, cancelLen, phase, poll_sched, pollHist>>

handles    == <<cmd_var, run_var, stop_var>>
connVars   == <<connected, scope, handles>>
workerVars == <<thread, n, cnt_cmd, slept, observed, phase>>
btnVars    == <<start_btn, stop_btn>>
writeVars  == <<log, handlerWrites, lastWrite>>
cancelVars == <<cancelPc, cancelLen>>
pollVars   == <<sample, pollHist, poll_sched>>

\* ------------------------------------------------------- form entries --
\* An entry text: float() accepts it (num) and gives a finite value val, a
\* NaN ("nan") or an infinity of sign val ("inf", "-inf"); neg is the sign bit
\* of the float, set by a leading minus sign also when the value is zero.
Num(v) == [num |-> TRUE, kind |-> "fin", val |-> v, neg |-> v < 0]
NotNum == [num |-> FALSE, kind |-> "fin", val |-> 0, neg |-> FALSE]
NanText == [num |-> TRUE, kind |-> "nan", val |-> 0, neg |-> FALSE]
InfText == [num |-> TRUE, kind |-> "inf", val |-> 1, neg |-> FALSE]
NegInfText == [num |-> TRUE, kind |-> "inf", val |-> 0 - 1, neg |-> TRUE]
\* The text "-0.0".
NegZeroText == [num |-> TRUE, kind |-> "fin", val |-> 0, neg |-> TRUE]

\* Texts of <<speed, scale, run, stop, cycle>> entries at a START click.
GoodInputs ==
    { <<Num(1500), Num(19913),  Num(10), Num(50), Num(1)>>,
      <<Num(5),    Num(200000), Num(1),  Num(1),  Num(MaxCycles)>>,
      <<Num(-3),   Num(200000), Num(1),  Num(0),  Num(1)>> }

BadInputs ==
    { <<Num(5),  Num(0),       Num(1),  Num(1),  Num(1)>>,
      <<Num(5),  Num(-19913),  Num(1),  Num(1),  Num(1)>>,
      <<Num(5),  NegZeroText,  Num(1),  Num(1),  Num(1)>>,
      <<Num(5),  Num(200000),  Num(0),  Num(1),  Num(1)>>,
      <<Num(5),  Num(200000),  Num(1),  Num(-1), Num(1)>>,
      <<Num(5),  Num(200000),  Num(1),  Num(1),  Num(0)>>,
      <<NotNum,  Num(200000),  Num(1),  Num(1),  Num(1)>>,
      <<Num(5),  NotNum,       Num(1),  Num(1),  Num(1)>>,
      <<Num(5),  Num(200000),  NotNum,  Num(1),  Num(1)>>,
      <<Num(5),  Num(200000),  Num(1),  NotNum,  Num(1)>>,
      <<Num(5),  Num(200000),  Num(1),  Num(1),  NotNum>>,
      <<Num(5),  NegInfText,   Num(1),  Num(1),  Num(1)>>,
      <<Num(5),  Num(200000),  Num(1),  Num(1),  NanText>> }

\* Texts that pass the tests of lines 237-244 although one is no number: a
\* NaN scale, an infinite run time with a NaN stop time.
OddInputs ==
    { <<Num(5),  NanText,      Num(1),  Num(1),  Num(1)>>,
      <<Num(5),  Num(200000),  InfText, NanText, Num(1)>> }

StartInputs == GoodInputs \cup OddInputs \cup BadInputs

\* The START inputs of the specifications CtrlSpec and ConnSpec.
CtrlInputs == GoodInputs \cup BadInputs
ConnInputs == { <<Num(1500), Num(19913), Num(10), Num(50), Num(1)>> }
                  \cup OddInputs

\* A parsed entry: float(text) or int(text).
Fin(v) == [kind |-> "fin", val |-> v, neg |-> v < 0]

NoParams == <<Fin(0), Fin(0), Fin(0), Fin(0), Fin(0)>>

\* No run was started yet.
NoPhase == <<"Idle", 0>>

\* No read of the poller has failed so far.
NoOutage == [ok |-> TRUE, fails |-> 0]

\* ------------------------------------------------- float arithmetic --
\* Python floats are IEEE-754 doubles.  Naturals wider than a machine word
\* are sequences of limbs, least significant first, without leading zeros.
Base == 32768
MantBits == 53

RECURSIVE BigOfNat(_)
BigOfNat(k) == IF k = 0 THEN <<>> ELSE <<k % Base>> \o BigOfNat(k \div Base)

RECURSIVE BigToNat(_)
BigToNat(a) == IF a = <<>> THEN 0 ELSE Head(a) + Base * BigToNat(Tail(a))

RECURSIVE BigNorm(_)
BigNorm(a) ==
    IF a = <<>> THEN a
    ELSE IF a[Len(a)] = 0 THEN BigNorm(SubSeq(a, 1, Len(a) - 1))
    ELSE a

RECURSIVE BigAddC(_, _, _)
BigAddC(a, b, c) ==
    IF a = <<>> /\ b = <<>> THEN (IF c = 0 THEN <<>> ELSE <<c>>)
    ELSE LET x == (IF a = <<>> THEN 0 ELSE Head(a))
                  + (IF b = <<>> THEN 0 ELSE Head(b)) + c
         IN  <<x % Base>> \o BigAddC(IF a = <<>> THEN a ELSE Tail(a),
                                     IF b = <<>> THEN b ELSE Tail(b),
                                     x \div Base)

BigAdd(a, b) == BigAddC(a, b, 0)

RECURSIVE BigSubB(_, _, _)
BigSubB(a, b, br) ==
    IF a = <<>> THEN <<>>
    ELSE LET x == Head(a) - (IF b = <<>> THEN 0 ELSE Head(b)) - br
         IN  <<IF x < 0 THEN x + Base ELSE x>>
             \o BigSubB(Tail(a), IF b = <<>> THEN b ELSE Tail(b),
                        IF x < 0 THEN 1 ELSE 0)

\* a - b for a >= b.
BigSub(a, b) == BigNorm(BigSubB(a, b, 0))

RECURSIVE BigLessAt(_, _, _)
BigLessAt(a, b, i) ==
    IF i = 0 THEN FALSE
    ELSE IF a[i] # b[i] THEN a[i] < b[i]
    ELSE BigLessAt(a, b, i - 1)

BigLess(a, b) ==
    IF Len(a) # Len(b) THEN Len(a) < Len(b) ELSE BigLessAt(a, b, Len(a))

RECURSIVE BigDoubleC(_, _)
BigDoubleC(a, c) ==
    IF a = <<>> THEN (IF c = 0 THEN <<>> ELSE <<c>>)
    ELSE LET x == 2 * Head(a) + c
         IN  <<x % Base>> \o BigDoubleC(Tail(a), x \div Base)

\* 2 * a + bit
BigDouble(a, bit) == BigDoubleC(a, bit)

\* a \div 2
BigHalf(a) ==
    BigNorm([i \in 1..Len(a) |->
               a[i] \div 2
               + (IF i < Len(a) THEN (a[i + 1] % 2) * (Base \div 2) ELSE 0)])

BigOdd(a) == a # <<>> /\ a[1] % 2 = 1

RECURSIVE BigShl(_, _)
BigShl(a, k) ==
    IF k = 0 \/ a = <<>> THEN a
    ELSE IF k >= 15 THEN BigShl(<<0>> \o a, k - 15)
    ELSE BigShl(BigDouble(a, 0), k - 1)

RECURSIVE BigMulLimb(_, _, _)
BigMulLimb(a, k, c) ==
    IF a = <<>> THEN (IF c = 0 THEN <<>> ELSE <<c>>)
    ELSE LET x == Head(a) * k + c
         IN  <<x % Base>> \o BigMulLimb(Tail(a), k, x \div Base)

RECURSIVE BigMul(_, _)
BigMul(a, b) ==
    IF a = <<>> \/ b = <<>> THEN <<>>
    ELSE BigAdd(BigNorm(BigMulLimb(a, Head(b), 0)),
                BigShl(BigMul(a, Tail(b)), 15))

RECURSIVE BitsOfNat(_)
BitsOfNat(k) == IF k = 0 THEN 0 ELSE 1 + BitsOfNat(k \div 2)

\* Number of significant bits of a.
BigBits(a) ==
    IF a = <<>> THEN 0 ELSE 15 * (Len(a) - 1) + BitsOfNat(a[Len(a)])

\* a <= b
BigLeq(a, b) == ~BigLess(b, a)

\* The largest digit q >= acc with q * b <= r, trying the bits from bit down.
RECURSIVE BigQuotientDigit(_, _, _, _)
BigQuotientDigit(r, b, bit, acc) ==
    IF bit = 0 THEN acc
    ELSE LET half == bit \div 2
             try == acc + bit
         IN  IF BigLeq(BigNorm(BigMulLimb(b, try, 0)), r)
             THEN BigQuotientDigit(r, b, half, try)
             ELSE BigQuotientDigit(r, b, half, acc)

\* Quotient and remainder of a by b # 0, one limb of a at a time.
RECURSIVE BigDivMod(_, _)
BigDivMod(a, b) ==
    IF BigLess(a, b) THEN [q |-> <<>>, r |-> a]
    ELSE LET d == BigDivMod(Tail(a), b)
             r2 == BigNorm(<<Head(a)>> \o d.r)
             digit == BigQuotientDigit(r2, b, Base \div 2, 0)
         IN  [q |-> BigNorm(<<digit>> \o d.q),
              r |-> BigSub(r2, BigNorm(BigMulLimb(b, digit, 0)))]

\* q rounded to the nearest integer, ties to even, given the remainder r of
\* the division by d that produced q.
BigRoundedQuotient(q, r, d) ==
    LET twice == BigDouble(r, 0)
    IN  IF BigLess(twice, d) THEN q
        ELSE IF BigLess(d, twice) \/ BigOdd(q) THEN BigAdd(q, <<1>>)
        ELSE q

\* A finite double of value sign * mant * 2^exp, mant of MantBits bits or 0;
\* NaN and the infinities by kind.
Finite(sign, mant, exp) == [kind |-> "fin", sign |-> sign, mant |-> mant, exp |-> exp]
NaN == [kind |-> "nan", sign |-> 1, mant |-> <<>>, exp |-> 0]
Infinity(sign) == [kind |-> "inf", sign |-> sign, mant |-> <<>>, exp |-> 0]

\* The double nearest to sign * (num / den) * 2^exp (round to nearest, ties
\* to even), for den # 0.
NearestDouble(sign, num, den, exp) ==
    IF num = <<>> THEN Finite(sign, <<>>, 0)
    ELSE LET sh == MantBits - (BigBits(num) - BigBits(den))
             n1 == IF sh >= 0 THEN BigShl(num, sh) ELSE num
             d1 == IF sh >= 0 THEN den ELSE BigShl(den, 0 - sh)
             wide == BigBits(BigDivMod(n1, d1).q) > MantBits
             d2 == IF wide THEN BigDouble(d1, 0) ELSE d1
             sh2 == IF wide THEN sh - 1 ELSE sh
             dm == BigDivMod(n1, d2)
             m == BigRoundedQuotient(dm.q, dm.r, d2)
         IN  IF BigBits(m) > MantBits
             THEN Finite(sign, BigHalf(m), exp - sh2 + 1)
             ELSE Finite(sign, m, exp - sh2)

SignOf(neg) == IF neg THEN 0 - 1 ELSE 1
Abs(v) == IF v < 0 THEN 0 - v ELSE v

\* float(text) for a decimal text of magnitude num / den (num >= 0, den > 0),
\* with a leading minus sign (neg) or without.
FloatOfRatio(neg, num, den) ==
    NearestDouble(SignOf(neg), BigOfNat(num), BigOfNat(den), 0)

\* float(i) for an int i; the float of the int 0 is +0.0.
FloatOfInt(i) == FloatOfRatio(i < 0, Abs(i), 1)

\* float(text) of an entry text that float() accepts, val counted in units
\* of 1/den.
FloatOfEntry(e, den) ==
    IF e.kind = "nan" THEN NaN
    ELSE IF e.kind = "inf" THEN Infinity(SignOf(e.neg))
    ELSE FloatOfRatio(e.neg, Abs(e.val), den)

IsZero(x) == x.kind = "fin" /\ x.mant = <<>>

\* x / y for y # 0.
FloatDiv(x, y) ==
    IF x.kind = "nan" \/ y.kind = "nan" THEN NaN
    ELSE IF x.kind = "inf"
    THEN (IF y.kind = "inf" THEN NaN ELSE Infinity(x.sign * y.sign))
    ELSE IF y.kind = "inf" THEN Finite(x.sign * y.sign, <<>>, 0)
    ELSE NearestDouble(x.sign * y.sign, x.mant, y.mant, x.exp - y.exp)

\* x * y
FloatMul(x, y) ==
    IF x.kind = "nan" \/ y.kind = "nan" THEN NaN
    ELSE IF x.kind = "inf" \/ y.kind = "inf"
    THEN (IF IsZero(x) \/ IsZero(y) THEN NaN ELSE Infinity(x.sign * y.sign))
    ELSE NearestDouble(x.sign * y.sign, BigMul(x.mant, y.mant), <<1>>,
                       x.exp + y.exp)

\* |x| rounded toward zero.
TruncatedMagnitude(x) ==
    IF x.mant = <<>> THEN 0
    ELSE IF x.exp >= 0 THEN BigToNat(BigShl(x.mant, x.exp))
    ELSE BigToNat(BigDivMod(x.mant, BigShl(<<1>>, 0 - x.exp)).q)

\* |x| rounded to the nearest integer, ties to even, for finite x.
RoundedMagnitude(x) ==
    IF x.mant = <<>> THEN 0
    ELSE IF x.exp >= 0 THEN BigToNat(BigShl(x.mant, x.exp))
    ELSE LET d == BigShl(<<1>>, 0 - x.exp)
             dm == BigDivMod(x.mant, d)
         IN  BigToNat(BigRoundedQuotient(dm.q, dm.r, d))

\* int(round(x)) for finite x.
PyRound(x) == x.sign * RoundedMagnitude(x)

\* f"{x:+.0f}": the sign character, then the digits of |x| rounded to an
\* integer, "inf" or "nan"; a NaN is always printed as "+nan".
FormatSigned(x) ==
    [sign |-> IF x.sign < 0 /\ x.kind # "nan" THEN "-" ELSE "+",
     kind |-> x.kind,
     digits |-> IF x.kind = "fin" THEN RoundedMagnitude(x) ELSE 0]

\* rpm / scale of line 270, scale in units of 1/ScaleDen.
SpeedQuotient(rpm, scale) ==
    FloatDiv(FloatOfEntry(rpm, 1), FloatOfEntry(scale, ScaleDen))

\* int(round(rpm / scale)) for finite rpm and scale > 0.
ToCounts(rpm, scale) == PyRound(SpeedQuotient(Fin(rpm), Fin(scale)))

\* f"{counts * scale:+.0f}" of lines 327-330 for the scale entry text s.
RpmTextOf(counts, s) ==
    FormatSigned(FloatMul(FloatOfInt(counts), FloatOfEntry(s, ScaleDen)))

\* f"{rpm:.0f}" of line 277 for the stored speed p, a whole number of RPM:
\* its digits, after a minus sign when the sign bit is set.
SpeedText(p) == [neg |-> p.neg, digits |-> Abs(p.val)]
NoSpeed == [neg |-> FALSE, digits |-> 0]

Status(kind, i, c, rpm) == <<kind, i, c, rpm>>
Plain(kind) == Status(kind, 0, 0, NoSpeed)

\* The sample shown as two dashes.
NoText == [sign |-> "+", kind |-> "none", digits |-> 0]
Unavailable == [avail |-> FALSE, meas_rpm |-> NoText, meas_cnt |-> 0,
                cmd_rpm |-> NoText, cmd_cnt |-> 0]

AlivePcs == {"init", "loop", "run_status", "run_cmd", "run_req", "run_wait",
             "run_chk", "stop_status", "stop_req", "stop_wait", "final",
             "set_status", "say_stopped", "say_done", "after", "exit"}

\* self._thread and self._thread.is_alive()
ThreadAlive == thread \in AlivePcs

\* ------------------------------------------------------ channel writes --
\* A handle obtained by get_variable belongs to the X2CScope object that
\* made it: "cur" is the object self.scope._scope holds now, "old" an object
\* that line 51 replaced without a disconnect(), "released" an object whose
\* disconnect() has run.  A handle is live until its channel is released.
Live(h) == h \in {"cur", "old"}

\* The attribute of the handle that the worker and the handlers write.
Handle(var) ==
    CASE var = "cmd" -> cmd_var
      [] var = "run" -> run_var
      [] var = "stop" -> stop_var

\* A set_value call on a variable handle either returns or raises.
WriteOutcomes == {"return", "raise"}

NoWrite == [var |-> "none", val |-> 0, by |-> "none"]

\* set_value(val) is called on the handle of var by the worker ("loop") or
\* by a GUI handler.
Written(var, val, by) ==
    /\ lastWrite' = [var |-> var, val |-> val, by |-> by]
    /\ IF by = "loop"
       THEN /\ log' = Append(log, [var |-> var, val |-> val,
                                   live |-> Live(Handle(var))])
            /\ UNCHANGED handlerWrites
       ELSE /\ handlerWrites' = handlerWrites \cup {[var |-> var, val |-> val, by |-> by]}
            /\ UNCHANGED log

\* ---------------------------------------------------------------- Init --
Init ==
    /\ connected = FALSE
    /\ scope = "none"
    /\ cmd_var = "none"
    /\ run_var = "none"
    /\ stop_var = "none"
    /\ thread = "none"
    /\ n = 0
    /\ cnt_cmd = 0
    /\ slept = FALSE
    /\ stop_flag = FALSE
    /\ params = NoParams
    /\ status = Plain("Idle - not connected")
    /\ start_btn = "disabled"
    /\ stop_btn = "disabled"
    /\ pending = 0
    /\ mpc = "idle"
    /\ dialog = "none"
    /\ log = <<>>
    /\ handlerWrites = {}
    /\ lastWrite = NoWrite
    /\ cancelLen = 0
    /\ sample = Unavailable
    /\ observed = FALSE
    /\ cancelPc = "none"
    /\ phase = NoPhase
    /\ poll_sched = TRUE
    /\ pollHist = NoOutage

\* ------------------------------------------------ connection handling --
\* What a step of _connect does: it returns at line 196 or 199, or the
\* statement of line 51, 52, 203..207 or 208 raises, or the statements of
\* the step return ("ok").
ConnectOutcomes == {"missing", "nofile", "connect_raises", "import_raises",
                    "get_hwui_raises", "get_cmd_raises", "get_meas_raises",
                    "get_run_raises", "get_stop_raises", "hwui_raises", "ok"}

\* The outcomes that leave every handle as it was or renew all of them.
CtrlConnectOutcomes == {"connect_raises", "ok"}

\* Line 51 has stored a new X2CScope object.
Opened(out) == out \notin {"missing", "nofile", "connect_raises"}

\* A handle once line 51 has replaced the X2CScope object without a
\* disconnect(): it stays bound to the object that made it.
Replaced(h) == IF h = "cur" THEN "old" ELSE h

\* scope.disconnect(), lines 61-64: the handles of the current channel are
\* released with it.
Released(h) == IF scope = "open" /\ h = "cur" THEN "released" ELSE h

ScopeDisconnect ==
    /\ scope' = "none"
    /\ cmd_var' = Released(cmd_var)
    /\ run_var' = Released(run_var)
    /\ stop_var' = Released(stop_var)

\* messagebox.show*: the handler waits in the modal dialog.
Shows(title) ==
    /\ dialog' = title
    /\ mpc' = "dialog"

\* The user closes the message box; every handler returns right after it.
Dismiss ==
    /\ mpc = "dialog"
    /\ dialog' = "none"
    /\ mpc' = "idle"
    /\ UNCHANGED <<connVars, workerVars, stop_flag, params, status, btnVars,
                   pending, writeVars, pollVars, cancelVars>>

\* The except clause of lines 209-211.
ConnectFailed == Shows("Connection failed")

\* _toggle_conn -> _connect, lines 192-203: the two checks, scope.connect
\* and the handle of the hardware-UI switch.
Connect(out) ==
    /\ mpc = "idle"
    /\ ~connected
    /\ out \in {"missing", "nofile", "connect_raises", "import_raises",
               "get_hwui_raises", "ok"}
    /\ IF Opened(out)
       THEN /\ scope' = "open"
            /\ cmd_var' = Replaced(cmd_var)
            /\ run_var' = Replaced(run_var)
            /\ stop_var' = Replaced(stop_var)
       ELSE UNCHANGED <<scope, handles>>
    /\ IF out = "ok"
       THEN /\ mpc' = "conn_cmd"
            /\ UNCHANGED dialog
       ELSE Shows(CASE out = "missing" -> "Missing info"
                    [] out = "nofile" -> "File not found"
                    [] OTHER -> "Connection failed")
    /\ UNCHANGED <<connected, workerVars, stop_flag, params, status, btnVars,
                   pending, writeVars, pollVars, cancelVars>>

\* _connect, line 204: self.cmd_var is bound to a handle of the new channel.
ConnectCmd(out) ==
    /\ mpc = "conn_cmd"
    /\ out \in {"get_cmd_raises", "ok"}
    /\ IF out = "ok"
       THEN /\ cmd_var' = "cur"
            /\ mpc' = "conn_run"
            /\ UNCHANGED dialog
       ELSE /\ ConnectFailed
            /\ UNCHANGED cmd_var
    /\ UNCHANGED <<connected, scope, run_var, stop_var, workerVars, stop_flag,
                   params, status, btnVars, pending, writeVars, pollVars,
                   cancelVars>>

\* _connect, lines 205-206: the handle of the measured speed, then
\* self.run_var.
ConnectRun(out) ==
    /\ mpc = "conn_run"
    /\ out \in {"get_meas_raises", "get_run_raises", "ok"}
    /\ IF out = "ok"
       THEN /\ run_var' = "cur"
            /\ mpc' = "conn_stop"
            /\ UNCHANGED dialog
       ELSE /\ ConnectFailed
            /\ UNCHANGED run_var
    /\ UNCHANGED <<connected, scope, cmd_var, stop_var, workerVars, stop_flag,
                   params, status, btnVars, pending, writeVars, pollVars,
                   cancelVars>>

\* _connect, line 207: self.stop_var.
ConnectStop(out) ==
    /\ mpc = "conn_stop"
    /\ out \in {"get_stop_raises", "ok"}
    /\ IF out = "ok"
       THEN /\ stop_var' = "cur"
            /\ mpc' = "conn_finish"
            /\ UNCHANGED dialog
       ELSE /\ ConnectFailed
            /\ UNCHANGED stop_var
    /\ UNCHANGED <<connected, scope, cmd_var, run_var, workerVars, stop_flag,
                   params, status, btnVars, pending, writeVars, pollVars,
                   cancelVars>>

\* _connect, lines 208-216: the hardware UI is switched off and the widgets
\* show the connection.
ConnectFinish(out) ==
    /\ mpc = "conn_finish"
    /\ out \in {"hwui_raises", "ok"}
    /\ IF out = "ok"
       THEN /\ connected' = TRUE
            /\ start_btn' = "normal"
            /\ status' = Plain("Connected")
            /\ mpc' = "idle"
            /\ UNCHANGED dialog
       ELSE /\ ConnectFailed
            /\ UNCHANGED <<connected, start_btn, status>>
    /\ UNCHANGED <<scope, handles, workerVars, stop_flag, params, stop_btn,
                   pending, writeVars, pollVars, cancelVars>>

\* getattr(self, "stop_var", None)
HasStopVar == stop_var # "none"

\* _toggle_conn -> _disconnect, lines 219-220: the stop-request write.
Disconnect ==
    /\ mpc = "idle"
    /\ connected
    /\ IF HasStopVar
       THEN \E out \in WriteOutcomes :
               /\ Written("stop", 1, "disconnect")
               /\ mpc' = IF out = "raise" THEN "idle" ELSE "disc_release"
       ELSE /\ mpc' = "disc_release"
            /\ UNCHANGED writeVars
    /\ UNCHANGED <<connVars, workerVars, stop_flag, params, status, btnVars,
                   pending, dialog, pollVars, cancelVars>>

\* _disconnect, lines 221-227: release the channel, reset the widgets.
DisconnectRelease ==
    /\ mpc = "disc_release"
    /\ ScopeDisconnect
    /\ connected' = FALSE
    /\ start_btn' = "disabled"
    /\ stop_btn' = "disabled"
    /\ status' = Plain("Disconnected")
    /\ mpc' = "idle"
    /\ UNCHANGED <<workerVars, stop_flag, params, pending, dialog,
                   writeVars, pollVars, cancelVars>>

\* _on_close, lines 345-346; a raising write skips to root.destroy().
OnClose ==
    /\ mpc = "idle"
    /\ IF HasStopVar
       THEN \E out \in WriteOutcomes :
               /\ Written("stop", 1, "close")
               /\ mpc' = IF out = "raise" THEN "closed" ELSE "close_release"
       ELSE /\ mpc' = "close_release"
            /\ UNCHANGED writeVars
    /\ UNCHANGED <<connVars, workerVars, stop_flag, params, status, btnVars,
                   pending, dialog, pollVars, cancelVars>>

\* _on_close, lines 347-349: scope.disconnect() and root.destroy().
OnCloseRelease ==
    /\ mpc = "close_release"
    /\ ScopeDisconnect
    /\ mpc' = "closed"
    /\ UNCHANGED <<connected, workerVars, stop_flag, params, status,
                   btnVars, pending, dialog, writeVars, pollVars, cancelVars>>

\* ---------------------------------------------------- sequence control --
\* x <= 0 and x < 0 for the float of an entry text; both are false of a NaN.
LeqZero(e) == (e.kind = "fin" /\ e.val <= 0) \/ (e.kind = "inf" /\ e.val < 0)
Negative(e) == (e.kind = "fin" /\ e.val < 0) \/ (e.kind = "inf" /\ e.val < 0)

\* float() accepts the first four texts and int() the fifth (lines 237-241).
AllParse(inp) ==
    /\ \A i \in 1..5 : inp[i].num
    /\ inp[5].kind = "fin"

\* Lines 236-244: every field parses and passes the range test.
ValidParams(inp) ==
    /\ AllParse(inp)
    /\ ~(LeqZero(inp[2]) \/ LeqZero(inp[3]) \/ Negative(inp[4])
         \/ LeqZero(inp[5]))

Parsed(inp) ==
    [i \in 1..5 |-> [kind |-> inp[i].kind, val |-> inp[i].val,
                     neg |-> IF i = 5 THEN inp[i].val < 0 ELSE inp[i].neg]]

\* int(round(rpm / scale)) of line 270 for the stored parameters p; round()
\* raises on a NaN or an infinity (ok is FALSE).
Converted(p) ==
    LET q == SpeedQuotient(p[1], p[2])
    IN  IF q.kind = "fin" THEN [ok |-> TRUE, val |-> PyRound(q)]
        ELSE [ok |-> FALSE, val |-> 0]

\* Converted for the parameter tuples the START clicks of this model store.
ConvertedInputs ==
    [p \in {Parsed(inp) : inp \in {i \in StartInputs : ValidParams(i)}}
       |-> Converted(p)]

CountsOf(p) ==
    IF p \in DOMAIN ConvertedInputs THEN ConvertedInputs[p] ELSE Converted(p)

\* StartAccepted without the _stop_flag.clear() of line 253.
StartAcceptedNoClear(inp) ==
    /\ UNCHANGED stop_flag
    /\ params' = Parsed(inp)
    /\ thread' = "init"
    /\ n' = 0
    /\ cnt_cmd' = 0
    /\ slept' = FALSE
    /\ observed' = FALSE
    /\ phase' = <<"Starting", 0>>
    /\ cancelPc' = "none"
    /\ cancelLen' = 0
    /\ log' = <<>>
    /\ handlerWrites' = {}
    /\ lastWrite' = NoWrite
    /\ mpc' = "start_btns"
    /\ UNCHANGED dialog

\* The effect of an accepted START click up to Thread.start() (lines
\* 253-257); the handler goes on to lines 259-260.
StartAccepted(inp) ==
    /\ stop_flag' = FALSE
    /\ params' = Parsed(inp)
    /\ thread' = "init"
    /\ n' = 0
    /\ cnt_cmd' = 0
    /\ slept' = FALSE
    /\ observed' = FALSE
    /\ phase' = <<"Starting", 0>>
    /\ cancelPc' = "none"
    /\ cancelLen' = 0
    /\ log' = <<>>
    /\ handlerWrites' = {}
    /\ lastWrite' = NoWrite
    /\ mpc' = "start_btns"
    /\ UNCHANGED dialog

StartRejected ==
    UNCHANGED <<workerVars, stop_flag, params, writeVars, cancelVars>>

\* StartSeq without the is_alive() test of line 233.
StartSeqNoAliveTest(inp) ==
    /\ mpc = "idle"
    /\ start_btn = "normal"
    /\ IF ~ValidParams(inp)
       THEN Shows("Input error") /\ StartRejected
       ELSE IF ~connected
       THEN Shows("Not connected") /\ StartRejected
       ELSE StartAccepted(inp)
    /\ UNCHANGED <<connVars, status, btnVars, pending, pollVars>>

\* StartSeq without the connected test of line 249.
StartSeqNoConnTest(inp) ==
    /\ mpc = "idle"
    /\ start_btn = "normal"
    /\ IF ThreadAlive
       THEN StartRejected /\ UNCHANGED <<mpc, dialog>>
       ELSE IF ~ValidParams(inp)
       THEN Shows("Input error") /\ StartRejected
       ELSE StartAccepted(inp)
    /\ UNCHANGED <<connVars, status, btnVars, pending, pollVars>>

\* _start_seq with the entry texts inp, lines 233-257.
StartSeq(inp) ==
    /\ mpc = "idle"
    /\ start_btn = "normal"
    /\ IF ThreadAlive
       THEN StartRejected /\ UNCHANGED <<mpc, dialog>>
       ELSE IF ~ValidParams(inp)
       THEN Shows("Input error") /\ StartRejected
       ELSE IF ~connected
       THEN Shows("Not connected") /\ StartRejected
       ELSE StartAccepted(inp)
    /\ UNCHANGED <<connVars, status, btnVars, pending, pollVars>>

\* _start_seq, lines 259-260, after Thread.start() has returned.
StartSeqButtons ==
    /\ mpc = "start_btns"
    /\ start_btn' = "disabled"
    /\ stop_btn' = "normal"
    /\ mpc' = "idle"
    /\ UNCHANGED <<connVars, workerVars, stop_flag, params, status, pending,
                   dialog, writeVars, pollVars, cancelVars>>

\* StopSeq without the is_alive() test of line 263.
StopSeqNoAliveTest ==
    /\ mpc = "idle"
    /\ stop_btn = "normal"
    /\ stop_flag' = TRUE
    /\ cancelPc' = IF stop_flag THEN cancelPc ELSE thread
    /\ cancelLen' = IF stop_flag THEN cancelLen ELSE Len(log)
    /\ mpc' = "stop_write"
    /\ UNCHANGED <<connVars, workerVars, params, status, btnVars, pending,
                   dialog, writeVars, pollVars>>

\* _stop_seq, lines 263-264.
StopSeq ==
    /\ mpc = "idle"
    /\ stop_btn = "normal"
    /\ IF ThreadAlive
       THEN /\ stop_flag' = TRUE
            /\ cancelPc' = IF stop_flag THEN cancelPc ELSE thread
            /\ cancelLen' = IF stop_flag THEN cancelLen ELSE Len(log)
            /\ mpc' = "stop_write"
       ELSE UNCHANGED <<stop_flag, cancelVars, mpc>>
    /\ UNCHANGED <<connVars, workerVars, params, status, btnVars, pending,
                   dialog, writeVars, pollVars>>

\* _stop_seq, line 265; a raising write ends the handler.
StopSeqWrite ==
    /\ mpc = "stop_write"
    /\ \E out \in WriteOutcomes :
          /\ Written("stop", 1, "cancel")
          /\ mpc' = IF out = "raise" THEN "idle" ELSE "stop_status"
    /\ UNCHANGED <<connVars, workerVars, stop_flag, params, status, btnVars,
                   pending, dialog, pollVars, cancelVars>>

\* _stop_seq, line 266.
StopSeqStatus ==
    /\ mpc = "stop_status"
    /\ status' = Plain("Stopping...")
    /\ mpc' = "idle"
    /\ UNCHANGED <<connVars, workerVars, stop_flag, params, btnVars, pending,
                   dialog, writeVars, pollVars, cancelVars>>

\* The count of queued callbacks after one more is queued.
Queued(k) == IF k < MaxPending THEN k + 1 ELSE MaxPending

\* The counts of queued callbacks after one of k has run: of MaxPending or
\* more, MaxPending or more may be left.
Delivered(k) == IF k < MaxPending THEN {k - 1} ELSE {MaxPending - 1, MaxPending}

\* The lambda queued by _run_sequence, lines 308-311.
ButtonCallback ==
    /\ mpc \in {"idle", "dialog"}
    /\ pending > 0
    /\ pending' \in Delivered(pending)
    /\ start_btn' = "normal"
    /\ stop_btn' = "disabled"
    /\ UNCHANGED <<connVars, workerVars, stop_flag, params, status, mpc,
                   dialog, writeVars, pollVars, cancelVars>>

\* ------------------------------------------------------- _run_sequence --
mainVars == <<connVars, stop_flag, params, btnVars, mpc, dialog, pollVars, cancelVars>>

\* A Tk call made by the worker once root.destroy() has run raises.
TkGone == mpc = "closed"

\* The local cycles of _run_sequence.
Cycles == params[5].val

\* The outcomes of the test time.time() - t0 < t of a wait loop, as "the
\* time is over": always for t = 0 and for a NaN, never for an infinite t.
Elapsed(t) ==
    IF t.kind = "nan" \/ (t.kind = "fin" /\ t.val <= 0) THEN {TRUE}
    ELSE IF t.kind = "inf" THEN {FALSE}
    ELSE BOOLEAN

\* The worker moves on to position pc.
Goto(pc) ==
    /\ thread' = pc
    /\ UNCHANGED <<n, cnt_cmd>>

\* The worker ends (how = "done", or "crashed" by an uncaught exception);
\* its locals n, cnt_cmd and t0 go with it.
Ends(how) ==
    /\ thread' = how
    /\ n' = 0
    /\ cnt_cmd' = 0
    /\ slept' = FALSE

\* Lines 269-270; an exception of round() ends the thread.
RS_Init ==
    /\ thread = "init"
    /\ IF CountsOf(params).ok
       THEN /\ cnt_cmd' = CountsOf(params).val
            /\ thread' = "loop"
            /\ UNCHANGED <<n, slept>>
       ELSE Ends("crashed")
    /\ UNCHANGED <<mainVars, phase, observed, status, pending, writeVars>>

\* RS_Loop without the flag test at the top of the cycle.
RS_LoopNoFlagTest ==
    /\ thread = "loop"
    /\ IF n >= Cycles
       THEN /\ thread' = "final"
            /\ UNCHANGED n
       ELSE /\ n' = n + 1
            /\ thread' = "run_status"
    /\ UNCHANGED <<mainVars, phase, cnt_cmd, slept, observed, status, pending, writeVars>>

\* RS_Loop advancing n by two.
RS_LoopStepTwo ==
    /\ thread = "loop"
    /\ IF n >= Cycles
       THEN /\ thread' = "final"
            /\ UNCHANGED <<n, observed>>
       ELSE /\ n' = n + 2
            /\ IF stop_flag
               THEN /\ observed' = TRUE
                    /\ thread' = "final"
               ELSE /\ thread' = "run_status"
                    /\ UNCHANGED observed
    /\ UNCHANGED <<mainVars, phase, cnt_cmd, slept, status, pending, writeVars>>

\* Lines 272-274: next n of range(1, cycles + 1), then the flag test.
RS_Loop ==
    /\ thread = "loop"
    /\ IF n >= Cycles
       THEN /\ thread' = "final"
            /\ UNCHANGED <<n, observed>>
       ELSE /\ n' = n + 1
            /\ IF stop_flag
               THEN /\ observed' = TRUE
                    /\ thread' = "final"
               ELSE /\ thread' = "run_status"
                    /\ UNCHANGED observed
    /\ UNCHANGED <<mainVars, phase, cnt_cmd, slept, status, pending, writeVars>>

\* Line 277.
RS_RunStatus ==
    /\ thread = "run_status"
    /\ IF TkGone
       THEN /\ Ends("crashed")
            /\ UNCHANGED <<status, phase>>
       ELSE /\ status' = Status("RUN", n, Cycles, SpeedText(params[1]))
            /\ phase' = <<"Run", n>>
            /\ Goto("run_cmd")
            /\ UNCHANGED slept
    /\ UNCHANGED <<mainVars, observed, pending, writeVars>>

\* Line 278.
RS_WriteCmd ==
    /\ thread = "run_cmd"
    /\ Written("cmd", cnt_cmd, "loop")
    /\ \E out \in WriteOutcomes :
          IF out = "raise" THEN Ends("crashed")
          ELSE Goto("run_req") /\ UNCHANGED slept
    /\ UNCHANGED <<mainVars, phase, observed, status, pending>>

\* Lines 279-281.
RS_WriteRun ==
    /\ thread = "run_req"
    /\ Written("run", 1, "loop")
    /\ \E out \in WriteOutcomes :
          IF out = "raise" THEN Ends("crashed")
          ELSE Goto("run_wait") /\ slept' = FALSE
    /\ UNCHANGED <<mainVars, phase, observed, status, pending>>

\* RS_RunWait writing the command count again on the first wait tick.
RS_RunWaitWritesCmd ==
    /\ thread = "run_wait"
    /\ \E elapsed \in Elapsed(params[3]) :
          IF elapsed
          THEN /\ thread' = "run_chk"
               /\ slept' = FALSE
               /\ UNCHANGED <<observed, writeVars>>
          ELSE IF stop_flag
          THEN /\ observed' = TRUE
               /\ thread' = "run_chk"
               /\ slept' = FALSE
               /\ UNCHANGED writeVars
          ELSE /\ slept' = TRUE
               /\ IF slept THEN UNCHANGED writeVars
                  ELSE Written("cmd", cnt_cmd, "loop")
               /\ UNCHANGED <<thread, observed>>
    /\ UNCHANGED <<mainVars, phase, n, cnt_cmd, status, pending>>

\* Lines 282-285: one evaluation of the wait loop.
RS_RunWait ==
    /\ thread = "run_wait"
    /\ \E elapsed \in Elapsed(params[3]) :
          IF elapsed
          THEN /\ thread' = "run_chk"
               /\ slept' = FALSE
               /\ UNCHANGED observed
          ELSE IF stop_flag
          THEN /\ observed' = TRUE
               /\ thread' = "run_chk"
               /\ slept' = FALSE
          ELSE /\ slept' = TRUE
               /\ UNCHANGED <<thread, observed>>
    /\ UNCHANGED <<mainVars, phase, n, cnt_cmd, status, pending, writeVars>>

\* Lines 287-288.
RS_RunCheck ==
    /\ thread = "run_chk"
    /\ IF stop_flag
       THEN /\ observed' = TRUE
            /\ thread' = "final"
       ELSE /\ thread' = "stop_status"
            /\ UNCHANGED observed
    /\ UNCHANGED <<mainVars, phase, n, cnt_cmd, slept, status, pending, writeVars>>

\* Line 291.
RS_StopStatus ==
    /\ thread = "stop_status"
    /\ IF TkGone
       THEN /\ Ends("crashed")
            /\ UNCHANGED <<status, phase>>
       ELSE /\ status' = Status("STOP", n, Cycles, NoSpeed)
            /\ phase' = <<"Stop", n>>
            /\ Goto("stop_req")
            /\ UNCHANGED slept
    /\ UNCHANGED <<mainVars, observed, pending, writeVars>>

\* Lines 292-294.
RS_WriteStop ==
    /\ thread = "stop_req"
    /\ Written("stop", 1, "loop")
    /\ \E out \in WriteOutcomes :
          IF out = "raise" THEN Ends("crashed")
          ELSE Goto("stop_wait") /\ slept' = FALSE
    /\ UNCHANGED <<mainVars, phase, observed, status, pending>>

\* Lines 295-298: one evaluation of the wait loop; with stop_t = 0 the
\* body never runs.  Leaving the loop continues the for statement.
RS_StopWait ==
    /\ thread = "stop_wait"
    /\ \E elapsed \in Elapsed(params[4]) :
          IF elapsed
          THEN /\ thread' = "loop"
               /\ slept' = FALSE
               /\ UNCHANGED observed
          ELSE IF stop_flag
          THEN /\ observed' = TRUE
               /\ thread' = "loop"
               /\ slept' = FALSE
          ELSE /\ slept' = TRUE
               /\ UNCHANGED <<thread, observed>>
    /\ UNCHANGED <<mainVars, phase, n, cnt_cmd, status, pending, writeVars>>

\* RS_Final with the closing stop-request write left out.
RS_FinalSkipped ==
    /\ thread = "final"
    /\ Goto("set_status")
    /\ UNCHANGED <<mainVars, phase, slept, observed, status, pending, writeVars>>

\* Lines 301-302.
RS_Final ==
    /\ thread = "final"
    /\ IF HasStopVar
       THEN /\ Written("stop", 1, "loop")
            /\ \E out \in WriteOutcomes :
                  IF out = "raise" THEN Ends("crashed")
                  ELSE Goto("set_status") /\ UNCHANGED slept
       ELSE /\ Goto("set_status")
            /\ UNCHANGED <<slept, writeVars>>
    /\ UNCHANGED <<mainVars, phase, observed, status, pending>>

\* Line 305: the flag is read for the argument of status.set.
RS_ReadFlag ==
    /\ thread = "set_status"
    /\ thread' = IF stop_flag THEN "say_stopped" ELSE "say_done"
    /\ UNCHANGED <<mainVars, phase, n, cnt_cmd, slept, observed, status,
                   pending, writeVars>>

\* Lines 304-306: status.set with the text chosen at line 305.
RS_SetStatus ==
    /\ thread \in {"say_stopped", "say_done"}
    /\ IF TkGone
       THEN /\ Ends("crashed")
            /\ UNCHANGED <<status, phase>>
       ELSE /\ status' = IF thread = "say_stopped"
                         THEN Plain("Stopped by user")
                         ELSE Plain("Done - motor idle")
            /\ phase' = IF thread = "say_stopped"
                        THEN <<"StoppedByUser", n>>
                        ELSE <<"Completed", n>>
            /\ Goto("after")
            /\ UNCHANGED slept
    /\ UNCHANGED <<mainVars, observed, pending, writeVars>>

\* Lines 307-312: root.after queues the callback and returns at once.
RS_After ==
    /\ thread = "after"
    /\ IF TkGone
       THEN /\ Ends("crashed")
            /\ UNCHANGED pending
       ELSE /\ pending' = Queued(pending)
            /\ Goto("exit")
            /\ UNCHANGED slept
    /\ UNCHANGED <<mainVars, phase, observed, status, writeVars>>

\* _run_sequence returns; the thread is no longer alive.
RS_Exit ==
    /\ thread = "exit"
    /\ Ends("done")
    /\ UNCHANGED <<mainVars, phase, observed, status, pending, writeVars>>

RunSequence ==
    \/ RS_Init \/ RS_Loop \/ RS_RunStatus \/ RS_WriteCmd \/ RS_WriteRun
    \/ RS_RunWait \/ RS_RunCheck \/ RS_StopStatus \/ RS_WriteStop
    \/ RS_StopWait \/ RS_Final \/ RS_ReadFlag \/ RS_SetStatus \/ RS_After
    \/ RS_Exit

\* ------------------------------------------------------- speed polling --
Read(v) == [ok |-> TRUE, val |-> v]
ReadFails == [ok |-> FALSE, val |-> 0]

\* The reads and scale texts of the poller-centred specification: a motor
\* turning backwards at a positive command, a scale that is a number, no
\* text float() accepts, or a NaN.
PollMeasReads == {Read(0 - 3), ReadFails}
PollCmdReads == {Read(7533), ReadFails}
PollScaleTexts == {Num(19913), NotNum, NanText}
PollStartInputs == { <<Num(1500), Num(19913), Num(10), Num(50), Num(1)>> }

\* What the two get_value calls return and the scale entry holds at a tick.
MeasReads == {Read(3), Read(0 - 3), ReadFails}
CmdReads == {Read(7533), ReadFails}
ScaleTexts == {Num(19913), NotNum, NanText, NegZeroText}

\* The record of the poll reads after a tick whose reads succeeded (ok) or
\* not: fails counts the ticks of the latest outage, up to MaxFails.
AfterReads(ok) ==
    IF ok
    THEN [ok |-> TRUE, fails |-> IF pollHist.ok THEN 0 ELSE pollHist.fails]
    ELSE [ok |-> FALSE,
          fails |-> IF pollHist.ok THEN 1
                    ELSE IF pollHist.fails < MaxFails THEN pollHist.fails + 1
                    ELSE MaxFails]

\* RpmTextOf for the counts and the scale texts of the ticks of this model.
PolledCounts == {0} \cup {r.val : r \in MeasReads \cup CmdReads
                                        \cup PollMeasReads \cup PollCmdReads}
PolledScales == {s \in ScaleTexts \cup PollScaleTexts : s.num}
PolledTexts == [c \in PolledCounts |-> [s \in PolledScales |-> RpmTextOf(c, s)]]

RpmText(c, s) ==
    IF c \in PolledCounts /\ s \in PolledScales THEN PolledTexts[c][s]
    ELSE RpmTextOf(c, s)

\* Lines 327-330: the sample published for the counts cm and cc with the
\* scale text s parsed.
Published(cm, cc, s) ==
    [avail |-> TRUE,
     meas_rpm |-> RpmText(cm, s), meas_cnt |-> cm,
     cmd_rpm |-> RpmText(cc, s),  cmd_cnt |-> cc]

\* PollSpeeds that is not scheduled again after a failed read.
PollSpeedsStopsOnFailure(m, c, s) ==
    /\ mpc \in {"idle", "dialog"}
    /\ poll_sched
    /\ IF connected
       THEN LET ok == m.ok /\ c.ok
                cnt_meas == IF ok THEN m.val ELSE 0
                cnt_c == IF ok THEN c.val ELSE 0
            IN  /\ sample' = IF s.num THEN Published(cnt_meas, cnt_c, s)
                             ELSE Unavailable
                /\ pollHist' = AfterReads(ok)
                /\ poll_sched' = ok
       ELSE /\ sample' = Unavailable
            /\ poll_sched' = TRUE
            /\ UNCHANGED pollHist
    /\ UNCHANGED <<connVars, workerVars, stop_flag, params, status, btnVars,
                   pending, mpc, dialog, writeVars, cancelVars>>

\* _poll_speeds with the two reads and the scale text of this tick; line 338
\* schedules the next tick on every path.
PollSpeeds(m, c, s) ==
    /\ mpc \in {"idle", "dialog"}
    /\ poll_sched
    /\ IF connected
       THEN LET ok == m.ok /\ c.ok
                cnt_meas == IF ok THEN m.val ELSE 0
                cnt_c == IF ok THEN c.val ELSE 0
            IN  /\ sample' = IF s.num THEN Published(cnt_meas, cnt_c, s)
                             ELSE Unavailable
                /\ pollHist' = AfterReads(ok)
       ELSE /\ sample' = Unavailable
            /\ UNCHANGED pollHist
    /\ poll_sched' = TRUE
    /\ UNCHANGED <<connVars, workerVars, stop_flag, params, status, btnVars,
                   pending, mpc, dialog, writeVars, cancelVars>>

\* ----------------------------------------------------------- behaviour --
\* One step of the program: a handler on the main thread, a callback of the
\* event loop or a statement of the worker, with the outcomes of _connect
\* in outs, the entry texts at START in inps, and at a poll tick the reads in
\* ms and cs and the scale text in ss.
Step(outs, inps, ms, cs, ss) ==
    \/ \E out \in outs : Connect(out)
    \/ \E out \in outs : ConnectCmd(out)
    \/ \E out \in outs : ConnectRun(out)
    \/ \E out \in outs : ConnectStop(out)
    \/ \E out \in outs : ConnectFinish(out)
    \/ Disconnect
    \/ DisconnectRelease
    \/ OnClose
    \/ OnCloseRelease
    \/ \E inp \in inps : StartSeq(inp)
    \/ StartSeqButtons
    \/ StopSeq
    \/ StopSeqWrite
    \/ StopSeqStatus
    \/ ButtonCallback
    \/ Dismiss
    \/ RunSequence
    \/ \E m \in ms, c \in cs, s \in ss : PollSpeeds(m, c, s)

Next == Step(ConnectOutcomes, StartInputs, MeasReads, CmdReads, ScaleTexts)

Spec == Init /\ [][Next]_vars

\* The sequence controller: every START input, a connection that fails
\* before it opens a channel or succeeds, a poller whose reads succeed.
CtrlNext == Step(CtrlConnectOutcomes, CtrlInputs, {Read(3)}, {Read(7533)},
                 {Num(19913)})

CtrlSpec == Init /\ [][CtrlNext]_vars

\* The connection: every outcome of _connect, around runs of one cycle.
ConnNext == Step(ConnectOutcomes, ConnInputs, {Read(3)}, {Read(7533)},
                 {Num(19913)})

ConnSpec == Init /\ [][ConnNext]_vars

\* The poller: failing reads, a negative measured count and scale texts of
\* three kinds, around runs with the entry defaults.
PollNext == Step(CtrlConnectOutcomes, PollStartInputs, PollMeasReads,
                 PollCmdReads, PollScaleTexts)

PollSpec == Init /\ [][PollNext]_vars

\* ===================================================================== *
\* Properties                                                            *
\* ===================================================================== *
Done == Plain("Done - motor idle")
StoppedByUser == Plain("Stopped by user")
Stopping == Plain("Stopping...")

\* The worker of the latest run has executed its final status update (lines
\* 304-306); it is at line 307 or past it, or line 307 has raised.
ReachedTerminal == phase[1] \in {"Completed", "StoppedByUser"}

\* The worker is past its last channel write, or dead.
RunEnded == thread \in {"set_status", "say_stopped", "say_done", "after",
                        "exit", "done", "crashed"}

Waits == {"run_wait", "stop_wait"}

IsStopAssert(w) == w.var = "stop" /\ w.val = 1

\* C1: a run that reaches a terminal state (the worker has set 'Done - motor
\* idle' or 'Stopped by user') has stop request = 1 as the worker's last
\* write and as the last write anyone made in that run; no run-request
\* write follows it.
C1_TerminalLeavesStopAsserted ==
    ReachedTerminal =>
        /\ Len(log) > 0
        /\ IsStopAssert(log[Len(log)])
        /\ IsStopAssert(lastWrite)

C1_Witness ==
    /\ thread = "done"
    /\ status = StoppedByUser
    /\ lastWrite.by = "cancel"

\* C2: a START click while the run loop is alive changes nothing of the run
\* in flight: the worker, the cancellation flag, the stored parameters and
\* the record of channel writes stay as they are.
C2_StartWhileRunningRejected ==
    [][\A inp \in StartInputs :
          (StartSeq(inp) /\ ThreadAlive) =>
              UNCHANGED <<workerVars, stop_flag, params, writeVars, status,
                          cancelVars>>]_vars

C2_Witness ==
    /\ mpc = "idle"
    /\ start_btn = "normal"
    /\ thread = "run_wait"
    /\ stop_flag

\* C3: once the worker has seen the cancellation flag set, it enters no new
\* phase in that run: its only further write is a stop-request assertion and
\* no 'Cycle n/N: RUN' or 'Cycle n/N: STOP' status is set any more.
C3_NoNewPhaseAfterObserved ==
    [][(observed /\ observed') =>
          /\ \/ log' = log
             \/ /\ Len(log') = Len(log) + 1
                /\ SubSeq(log', 1, Len(log)) = log
                /\ IsStopAssert(log'[Len(log')])
          /\ \/ status' = status
             \/ status'[1] \notin {"RUN", "STOP"}
          /\ thread' \notin {"run_status", "run_cmd", "run_req", "run_wait",
                             "stop_status", "stop_req", "stop_wait"}]_vars

C3_Witness ==
    /\ observed
    /\ cancelPc = "stop_wait"
    /\ thread = "set_status"
    /\ Len(log) < 3 * Cycles

\* C4: no write of the worker is issued on handles of a released channel:
\* teardown lets the run loop end before it releases the channel.
C4_NoWriteAfterRelease ==
    \A i \in 1..Len(log) : log[i].live

\* C5: every write to command-speed, run-request and
\* stop-request is issued by the run loop; while a run loop is active no
\* handler has written any of them.
C5_OnlyLoopWrites ==
    ThreadAlive => handlerWrites = {}

\* C6: a run cancelled during a Run or Stop wait, once its worker has
\* returned, reports 'Stopped by user' (no disconnect or window close
\* having touched the status since the start).
C6_CancelEndsStoppedByUser ==
    ( /\ cancelPc \in Waits
      /\ thread = "done"
      /\ mpc = "idle"
      /\ \A w \in handlerWrites : w.by = "cancel" )
    => status = StoppedByUser

\* C7: after a cancel during a Run or Stop wait the stop request
\* is written exactly once more in that run.
C7_ExactlyOneStopAfterCancel ==
    (cancelPc \in Waits /\ RunEnded) =>
        (Len(log) - cancelLen)
          + Cardinality({w \in handlerWrites : w.by = "cancel"}) = 1

\* C8: a failed channel write never leaves the controller reporting a
\* Running phase with no live run loop; the run ends in 'Stopped by user'.
C8_WriteFailureEndsStopped ==
    (thread = "crashed" /\ mpc # "closed") => status = StoppedByUser

\* The run state a rejected START click must leave alone.
runState == <<workerVars, stop_flag, params, writeVars, cancelVars, status>>

\* The entry texts fail a test of lines 237-244.
OutsideChecked(inp) ==
    \/ ~AllParse(inp)
    \/ LeqZero(inp[2])
    \/ LeqZero(inp[3])
    \/ Negative(inp[4])
    \/ LeqZero(inp[5])

\* A field holds the text of a NaN, which is no number.
NotANumber(inp) == \E i \in 1..5 : inp[i].num /\ inp[i].kind = "nan"

\* C9: a START click with any parameter outside its stated constraint
\* (speed <= 0, scale <= 0, run time <= 0, stop time < 0, iterations <= 0,
\* or a field that is no number) starts no run loop, leaves the flag and the
\* stored parameters alone and makes no channel write.
C9_InvalidRejected ==
    [][\A inp \in StartInputs :
          (StartSeq(inp) /\ (OutsideChecked(inp) \/ LeqZero(inp[1])
                             \/ NotANumber(inp)))
              => UNCHANGED runState]_vars

\* C10: a START click while the channel is not connected starts no run loop
\* and makes no channel write; the controller stays as it was.
C10_NotConnectedRejected ==
    [][/\ \A inp \in StartInputs :
            (StartSeq(inp) /\ ~connected) => UNCHANGED runState
       /\ (thread # "init" /\ thread' = "init") => connected]_vars

C10_Witness ==
    /\ dialog = "Not connected"
    /\ ~connected
    /\ ~ThreadAlive

\* Number of writes of the worker to var in the current run.
CountLog(var) == Cardinality({i \in 1..Len(log) : log[i].var = var})

\* The worker is past line 306 and _stop_seq never set the flag in this run.
EndedUncancelled == ReachedTerminal /\ ~stop_flag

\* C11 (as stated): an uncancelled run of N iterations has made exactly N
\* writes of the command count, N run-request assertions and N stop-request
\* assertions when it ends.
C11_NWritesOfEach ==
    EndedUncancelled =>
        /\ CountLog("cmd") = Cycles
        /\ CountLog("run") = Cycles
        /\ CountLog("stop") = Cycles

\* C11 (amended): an uncancelled run of N iterations has made exactly N
\* writes of the command count (each the converted target speed), N
\* run-request assertions and N + 1 stop-request assertions, one per Stop
\* phase and the closing one of line 302, and it ends Completed: the worker
\* announces 'Done - motor idle', which stays on screen unless a handler
\* wrote to the channel since the start.
C11_UncancelledRunWrites ==
    EndedUncancelled =>
        /\ CountLog("cmd") = Cycles
        /\ CountLog("run") = Cycles
        /\ CountLog("stop") = Cycles + 1
        /\ Len(log) = 3 * Cycles + 1
        /\ \A i \in 1..Len(log) :
              log[i].val = IF log[i].var = "cmd"
                           THEN CountsOf(params).val ELSE 1
        /\ phase = <<"Completed", Cycles>>
        /\ handlerWrites = {} => status = Done

C11_Witness ==
    /\ thread = "done"
    /\ ~stop_flag
    /\ Cycles = MaxCycles
    /\ status = Done
    /\ Len(log) = 3 * MaxCycles + 1

\* C12: a STOP click while no run loop is alive is a no-op: the flag, the
\* channel writes, the status and the worker stay as they are and the
\* handler returns at once.
C12_CancelWhenInactiveNoOp ==
    [][(StopSeq /\ ~ThreadAlive) =>
          UNCHANGED <<stop_flag, writeVars, status, workerVars, cancelVars,
                      mpc>>]_vars

C12_Witness ==
    /\ mpc = "idle"
    /\ stop_btn = "normal"
    /\ thread = "done"
    /\ ~stop_flag
    /\ status = Done

\* C13: after a poll tick taken while connected whose reads failed, the
\* published sample is the sentinel, not a numeric one.
C13_FailedReadPublishesSentinel ==
    (connected /\ ~pollHist.ok) => ~sample.avail

\* The value of a speed text, in RPM.
ShownRpm(t) == IF t.sign = "-" THEN 0 - t.digits ELSE t.digits

\* The speed text t is the product of the count c and the scale s,
\* s.val / ScaleDen RPM per count, to the nearest whole RPM; its sign is the
\* sign of the float product, negative when exactly one factor is, also for
\* a product of zero. With a scale that is no finite number it shows none.
ShowsProduct(t, c, s) ==
    IF s.kind = "fin"
    THEN /\ t.kind = "fin"
         /\ 2 * Abs(ShownRpm(t) * ScaleDen - c * s.val) <= ScaleDen
         /\ (t.sign = "-") <=> ((c < 0) # s.neg)
    ELSE t.kind \in {"nan", "inf"}

\* C14: a poll tick always schedules the next one, whatever its reads did;
\* it changes nothing of the sequence controller, the cancellation flag,
\* the connection or the channel writes; and a tick whose reads succeed
\* publishes the counts read on that tick and, for each, its product with
\* the scale of the scale entry to the nearest whole RPM, also right after
\* an outage.
C14_PollerSurvivesFailures ==
    [][/\ poll_sched'
       /\ \A m \in PollMeasReads, c \in PollCmdReads, s \in PollScaleTexts :
             PollSpeeds(m, c, s) =>
                /\ UNCHANGED <<workerVars, stop_flag, params, status,
                               writeVars, cancelVars, connVars, btnVars,
                               pending>>
                /\ (connected /\ m.ok /\ c.ok /\ s.num) =>
                      /\ sample'.avail
                      /\ sample'.meas_cnt = m.val
                      /\ sample'.cmd_cnt = c.val
                      /\ ShowsProduct(sample'.meas_rpm, m.val, s)
                      /\ ShowsProduct(sample'.cmd_rpm, c.val, s)
                      /\ pollHist'.ok]_vars

C14_Witness ==
    /\ pollHist = [ok |-> TRUE, fails |-> MaxFails]
    /\ sample.avail
    /\ sample.meas_cnt = 0 - 3
    /\ sample.meas_rpm = [sign |-> "-", kind |-> "fin", digits |-> 1]
    /\ sample.cmd_cnt = 7533
    /\ sample.cmd_rpm = [sign |-> "+", kind |-> "fin", digits |-> 1500]
    /\ thread = "run_wait"
    /\ stop_flag

\* The entry defaults of speed, scale, run time and stop time, one cycle.
ScenarioParams == <<Fin(1500), Fin(19913), Fin(10), Fin(50), Fin(1)>>

\* int(round(1500 / 0.19913))
ScenarioCounts == ToCounts(1500, 19913)

\* The variable and value of each write of the worker, in order.
LogWrites == [i \in 1..Len(log) |-> <<log[i].var, log[i].val>>]

\* C15 (as stated): with speed 1500 and scale 0.19913 the command count
\* written to command-speed is 7536.
C15_Writes7536 ==
    params = ScenarioParams =>
        \A i \in 1..Len(log) : log[i].var = "cmd" => log[i].val = 7536

\* C15 (amended): with speed 1500, scale 0.19913, one iteration, the
\* command count is round(1500 / 0.19913) = 7533; the uncancelled run writes
\* 7533 to command-speed, asserts run, then asserts stop for the Stop phase
\* and once more after the loop, and ends Completed.
C15_Writes7533 ==
    /\ ScenarioCounts = 7533
    /\ params = ScenarioParams =>
          \A i \in 1..Len(log) : log[i].var = "cmd" => log[i].val = 7533
    /\ (params = ScenarioParams /\ EndedUncancelled) =>
          /\ LogWrites = << <<"cmd", 7533>>, <<"run", 1>>, <<"stop", 1>>,
                            <<"stop", 1>> >>
          /\ phase = <<"Completed", 1>>

C15_Witness ==
    /\ params = ScenarioParams
    /\ thread = "done"
    /\ ~stop_flag
    /\ status = Done
    /\ LogWrites[1] = <<"cmd", 7533>>

\* The phases of a run in which the controller is running: accepted and
\* not yet in its first Run phase, or in a Run or Stop phase.
RunningPhases == {"Starting", "Run", "Stop"}

\* C16: within one run the phase announced by the worker moves only from
\* the start to Run(1), Run(k) -> Stop(k), Stop(k) -> Run(k+1) when
\* k < iterations, Stop(iterations) -> Completed, and from any running phase
\* to StoppedByUser; the cycle index stays within 1..iterations; and in the
\* worker's writes every run-request assertion directly follows a write of
\* the command count.
C16_PhaseOrder ==
    [][/\ (phase' # phase /\ phase'[1] # "Starting") =>
            \/ /\ phase = <<"Starting", 0>>
               /\ phase' = <<"Run", 1>>
            \/ /\ phase[1] = "Run"
               /\ phase' = <<"Stop", phase[2]>>
            \/ /\ phase[1] = "Stop"
               /\ phase[2] < Cycles
               /\ phase' = <<"Run", phase[2] + 1>>
            \/ /\ phase = <<"Stop", Cycles>>
               /\ phase'[1] = "Completed"
            \/ /\ phase[1] \in RunningPhases
               /\ phase'[1] = "StoppedByUser"
       /\ phase'[1] \in {"Run", "Stop"} =>
            (phase'[2] >= 1 /\ phase'[2] <= params'[5].val)
       /\ \A i \in 1..Len(log') :
            log'[i].var = "run" =>
               /\ i > 1
               /\ log'[i - 1].var = "cmd"
               /\ log'[i].val = 1]_vars

C16_Witness ==
    /\ phase = <<"Completed", MaxCycles>>
    /\ Cycles = MaxCycles
    /\ thread = "done"
    /\ ~stop_flag

\* C17: after _stop_seq has set the flag in a run, the worker writes neither
\* the command count nor the run request in that run.
C17_NoRunWriteAfterCancel ==
    cancelPc # "none" =>
        \A i \in (cancelLen + 1)..Len(log) : log[i].var = "stop"

\* The worker is in a Run or Stop phase of its loop.
InRunOrStopPhase ==
    thread \in {"run_status", "run_cmd", "run_req", "run_wait", "run_chk",
                "stop_status", "stop_req", "stop_wait"}

\* C18: whenever the main thread is free to take a click, the STOP button
\* is enabled while the worker is in a Run or Stop phase, and the START
\* button is enabled only when the channel is connected and no worker is
\* alive.
C18_ControlsMatchRun ==
    mpc = "idle" =>
        /\ InRunOrStopPhase => stop_btn = "normal"
        /\ start_btn = "normal" => (connected /\ ~ThreadAlive)

\* C19: once the worker of a run has returned and no handler is in
\* progress, the status is not one of the transient ones ('Stopping...',
\* 'Cycle n/N: RUN', 'Cycle n/N: STOP').
C19_NoTransientStatusAfterRun ==
    (thread = "done" /\ mpc = "idle") =>
        status[1] \notin {"Stopping...", "RUN", "STOP"}

\* C20: every accepted START click leaves the flag clear, the flag is set
\* only by a STOP click made in the current run, and a run whose worker
\* never saw the flag set goes through all its cycles.
C20_NoCancelLeak ==
    [][/\ (thread # "init" /\ thread' = "init") => ~stop_flag'
       /\ stop_flag' => cancelPc' # "none"
       /\ (thread' \in {"set_status", "say_stopped", "say_done", "after",
                       "exit", "done"} /\ ~observed') =>
             /\ Len(log') = 3 * params'[5].val + 1
             /\ CountLog("cmd")' = params'[5].val
       /\ (thread = "set_status" /\ thread' # thread /\ ~stop_flag) =>
             thread' = "say_done"
       /\ (thread = "say_done" /\ thread' = "after") =>
             /\ status' = Done
             /\ phase' = <<"Completed", Cycles>>]_vars

C20_Witness ==
    /\ thread = "init"
    /\ status = StoppedByUser
    /\ phase = <<"Starting", 0>>
    /\ ~stop_flag
    /\ Cycles = MaxCycles

====
